---- MODULE Spec2Model ----
(***************************************************************************)
(* Model of reportseff/output_renderer.py: the Column_Formatter object     *)
(* (format-token parser, title validation, width computation, entry        *)
(* formatting) and the Output_Renderer plan built from a format string and *)
(* a list of valid titles.                                                 *)
(*                                                                         *)
(* A Python str is a sequence of one-character strings.  None is the empty *)
(* tuple and an int n held in an Optional field is <<n>>.                  *)
(***************************************************************************)
EXTENDS Integers, Sequences, FiniteSets, TLC

VARIABLES
    valid_titles,   \* the caller's list object passed to Output_Renderer(...)
    format_str,     \* the format string passed to Output_Renderer(...)
    formatters,     \* Output_Renderer.formatters
    query_columns,  \* Output_Renderer.query_columns (list(set(..)): a set)
    builds,         \* number of Output_Renderer(...) calls made so far
    col,            \* a stand-alone Column_Formatter: <<>> or <<object>>
    pc,             \* "new"/"built"/"failed" (plan), "start"/"live"/"failed" (column)
    op,             \* name of the last operation called
    arg,            \* its argument(s)
    ret,            \* its return value (<<>> when it returned None or raised)
    err             \* the exception it raised, "none" otherwise

vars == <<valid_titles, format_str, formatters, query_columns, builds,
          col, pc, op, arg, ret, err>>

-----------------------------------------------------------------------------
(* Bounds *)

MaxTokens == 2      \* comma-separated tokens in an enumerated format string
MaxEntries == 2     \* entries passed to one compute_width call
MaxBuilds == 2      \* plans constructed from the same vocabulary object
MaxColumns == 4     \* display columns a later add_included call may reach

-----------------------------------------------------------------------------
(* Python values *)

None == <<>>
Some(n) == <<n>>

JobID == <<"J","o","b","I","D">>
JobIDRaw == <<"J","o","b","I","D","R","a","w">>
State == <<"S","t","a","t","e">>
TotalCPU == <<"T","o","t","a","l","C","P","U">>
AllocCPUS == <<"A","l","l","o","c","C","P","U","S">>
Elapsed == <<"E","l","a","p","s","e","d">>
REQMEM == <<"R","E","Q","M","E","M">>
NNodes == <<"N","N","o","d","e","s">>
MaxRSS == <<"M","a","x","R","S","S">>
Timelimit == <<"T","i","m","e","l","i","m","i","t">>
CPUEff == <<"C","P","U","E","f","f">>
MemEff == <<"M","e","m","E","f","f">>
TimeEff == <<"T","i","m","e","E","f","f">>

always_included == << JobID \o <<"%", ">">>, State >>

required == << JobID, JobIDRaw, State >>

\* the keys of self.derived, in insertion order
derived_keys == << CPUEff, MemEff, TimeEff >>

derived(k) ==
    CASE k = CPUEff -> << TotalCPU, AllocCPUS, Elapsed >>
      [] k = MemEff -> << REQMEM, NNodes, AllocCPUS, MaxRSS >>
      [] k = TimeEff -> << Elapsed, Timelimit >>

Range(s) == { s[i] : i \in 1..Len(s) }

-----------------------------------------------------------------------------
(* str methods *)

UpperChars == <<"A","B","C","D","E","F","G","H","I","J","K","L","M",
                "N","O","P","Q","R","S","T","U","V","W","X","Y","Z">>
LowerChars == <<"a","b","c","d","e","f","g","h","i","j","k","l","m",
                "n","o","p","q","r","s","t","u","v","w","x","y","z">>

\* the lower-case letter of each upper-case ASCII letter
FoldMap ==
    [ c \in { UpperChars[k] : k \in 1..26 } |->
        LowerChars[CHOOSE k \in 1..26 : UpperChars[k] = c] ]

\* str.casefold on ASCII text
casefold(s) ==
    [ i \in 1..Len(s) |->
        IF s[i] \in DOMAIN FoldMap THEN FoldMap[s[i]] ELSE s[i] ]

\* str.split(sep) for a one-character separator
RECURSIVE split(_, _)
split(s, sep) ==
    IF \E i \in 1..Len(s) : s[i] = sep
    THEN LET i == CHOOSE j \in 1..Len(s) :
                      s[j] = sep /\ \A k \in 1..(j-1) : s[k] # sep
         IN  << SubSeq(s, 1, i-1) >> \o split(SubSeq(s, i+1, Len(s)), sep)
    ELSE << s >>

\* sep.join(parts)
RECURSIVE join(_, _)
join(sep, parts) ==
    IF parts = <<>> THEN <<>>
    ELSE IF Len(parts) = 1 THEN parts[1]
    ELSE parts[1] \o sep \o join(sep, Tail(parts))

Spaces(n) == [ i \in 1..n |-> " " ]

Digits == <<"0","1","2","3","4","5","6","7","8","9">>
IsDigit(c) == \E k \in 1..10 : Digits[k] = c
DigitVal(c) == (CHOOSE k \in 1..10 : Digits[k] = c) - 1

\* the characters int() skips around the number: space, TAB, LF, CR, FF
\* and VT (written "\\x0b")
Whitespace == { " ", "\t", "\n", "\r", "\f", "\\x0b" }

RECURSIVE lstrip(_)
lstrip(s) ==
    IF s # <<>> /\ Head(s) \in Whitespace THEN lstrip(Tail(s)) ELSE s

RECURSIVE rstrip(_)
rstrip(s) ==
    IF s # <<>> /\ s[Len(s)] \in Whitespace
    THEN rstrip(SubSeq(s, 1, Len(s)-1))
    ELSE s

RECURSIVE DecVal(_, _)
DecVal(s, acc) ==
    IF s = <<>> THEN acc
    ELSE IF Head(s) = "_" THEN DecVal(Tail(s), acc)
    ELSE DecVal(Tail(s), 10 * acc + DigitVal(Head(s)))

\* int(s) on ASCII text: surrounding whitespace stripped, an optional sign,
\* then decimal digits with single underscores allowed between digits.
\* [ok |-> FALSE] stands for ValueError.
int(s) ==
    LET t == rstrip(lstrip(s))
        signed == t # <<>> /\ Head(t) \in {"+", "-"}
        body == IF signed THEN Tail(t) ELSE t
        wellformed ==
            /\ body # <<>>
            /\ \A i \in 1..Len(body) : IsDigit(body[i]) \/ body[i] = "_"
            /\ IsDigit(body[1]) /\ IsDigit(body[Len(body)])
            /\ \A i \in 1..(Len(body)-1) : ~(body[i] = "_" /\ body[i+1] = "_")
    IN  IF ~wellformed THEN [ok |-> FALSE, val |-> 0]
        ELSE [ok |-> TRUE,
              val |-> IF signed /\ Head(t) = "-" THEN 0 - DecVal(body, 0)
                      ELSE DecVal(body, 0)]

\* click.style(text, bold=True) / click.style(text, fg=color)
AnsiReset == <<"ESC","[","0","m">>
style_bold(text) == <<"ESC","[","1","m">> \o text \o AnsiReset
style_fg(text, color) ==
    <<"ESC","[">>
    \o (CASE color = <<"r","e","d">> -> <<"3","1">>
          [] color = <<"g","r","e","e","n">> -> <<"3","2">>)
    \o <<"m">> \o text \o AnsiReset

-----------------------------------------------------------------------------
(* Column_Formatter *)

\* Column_Formatter.__init__(token): [err, obj]
Column_Formatter(token) ==
    LET tokens == split(token, "%")
        title == tokens[1]
        fresh == [title |-> title, alignment |-> "^", width |-> None]
    IN  IF Len(tokens) > 1
        THEN LET format_str0 == tokens[2]
             IN  IF format_str0 = <<>>
                 THEN [err |-> "IndexError", obj |-> fresh]
                 ELSE LET aligned == format_str0[1] \in {"<", "^", ">"}
                          alignment == IF aligned THEN format_str0[1] ELSE "^"
                          format_str1 == IF aligned THEN Tail(format_str0)
                                         ELSE format_str0
                      IN  IF format_str1 # <<>>
                          THEN IF int(format_str1).ok
                               THEN [err |-> "none",
                                     obj |-> [title |-> title,
                                              alignment |-> alignment,
                                              width |-> Some(int(format_str1).val)]]
                               ELSE [err |-> "FormatError", obj |-> fresh]
                          ELSE [err |-> "none",
                                obj |-> [title |-> title,
                                         alignment |-> alignment,
                                         width |-> None]]
        ELSE [err |-> "none", obj |-> fresh]

\* Column_Formatter.__eq__(self, other) for a str other
eq_str(self, other) == self.title = other

\* validate_title with the vocabulary entry compared unfolded
validate_title_nofold(self, titles) ==
    LET fold_title == casefold(self.title)
        hits == { i \in 1..Len(titles) : fold_title = titles[i] }
    IN  IF hits # {}
        THEN LET i == CHOOSE j \in hits : \A k \in hits : j <= k
             IN  [err |-> "none", obj |-> [self EXCEPT !.title = titles[i]],
                  ret |-> titles[i]]
        ELSE [err |-> "UnknownTitleError", obj |-> self, ret |-> None]

\* Column_Formatter.validate_title(self, valid_titles): [err, obj, ret]
validate_title(self, titles) ==
    LET fold_title == casefold(self.title)
        hits == { i \in 1..Len(titles) : fold_title = casefold(titles[i]) }
    IN  IF hits # {}
        THEN LET i == CHOOSE j \in hits : \A k \in hits : j <= k
             IN  [err |-> "none", obj |-> [self EXCEPT !.title = titles[i]],
                  ret |-> titles[i]]
        ELSE [err |-> "UnknownTitleError", obj |-> self, ret |-> None]

RECURSIVE MaxWidth(_, _)
MaxWidth(width, entries) ==
    IF entries = <<>> THEN width
    ELSE MaxWidth(IF width > Len(Head(entries)) THEN width
                  ELSE Len(Head(entries)),
                  Tail(entries))

\* compute_width without the early return on an already set width
compute_width_always(self, entries) ==
    [self EXCEPT !.width = Some(MaxWidth(Len(self.title), entries))]

\* Column_Formatter.compute_width(self, entries): the object afterwards
compute_width(self, entries) ==
    IF self.width # None THEN self
    ELSE [self EXCEPT !.width = Some(MaxWidth(Len(self.title), entries))]

\* entry[:n]
SliceTo(entry, n) ==
    IF n >= 0 THEN SubSeq(entry, 1, IF n < Len(entry) THEN n ELSE Len(entry))
    ELSE SubSeq(entry, 1, Len(entry) + n)

\* ('{:' + alignment + str(width) + '}').format(text): [err, ret].
\* A width below zero puts a sign into the format specifier, which
\* str.format rejects for a str argument.
str_format(alignment, width, text) ==
    IF width < 0 THEN [err |-> "ValueError", ret |-> None]
    ELSE LET pad == IF width > Len(text) THEN width - Len(text) ELSE 0
             left == CASE alignment = "<" -> 0
                       [] alignment = ">" -> pad
                       [] alignment = "^" -> pad \div 2
         IN  [err |-> "none",
              ret |-> Spaces(left) \o text \o Spaces(pad - left)]

\* format_entry without the truncation of the entry
format_entry_notrunc(self, entry, color) ==
    IF self.width = None THEN [err |-> "UnsetWidthError", ret |-> None]
    ELSE LET result == str_format(self.alignment, self.width[1], entry)
         IN  IF result.err # "none" THEN result
             ELSE IF color # <<>>
                  THEN [err |-> "none", ret |-> style_fg(result.ret, color)]
                  ELSE result

\* Column_Formatter.format_entry(self, entry, color): [err, ret]
format_entry(self, entry, color) ==
    IF self.width = None THEN [err |-> "UnsetWidthError", ret |-> None]
    ELSE LET result == str_format(self.alignment, self.width[1],
                                  SliceTo(entry, self.width[1]))
         IN  IF result.err # "none" THEN result
             ELSE IF color # <<>>
                  THEN [err |-> "none", ret |-> style_fg(result.ret, color)]
                  ELSE result

\* Column_Formatter.format_title(self): [err, ret]
format_title(self) ==
    LET result == format_entry(self, self.title, None)
    IN  IF result.err # "none" THEN result
        ELSE [err |-> "none", ret |-> style_bold(result.ret)]
-----------------------------------------------------------------------------
(* Output_Renderer *)

NonEmpty(parts) == SelectSeq(parts, LAMBDA t : t # <<>>)

RECURSIVE BuildEach(_)
BuildEach(toks) ==
    IF toks = <<>> THEN [err |-> "none", fmts |-> <<>>]
    ELSE LET first == Column_Formatter(Head(toks))
         IN  IF first.err # "none" THEN [err |-> first.err, fmts |-> <<>>]
             ELSE LET rest == BuildEach(Tail(toks))
                  IN  IF rest.err # "none" THEN rest
                      ELSE [err |-> "none", fmts |-> <<first.obj>> \o rest.fmts]

\* Output_Renderer.build_formatters(format_str): [err, fmts]
build_formatters(fstr) == BuildEach(NonEmpty(split(fstr, ",")))

\* the formatters are validated in list order and each is renamed in place,
\* so a failure leaves the ones before it renamed and the rest as they were
RECURSIVE ValidateEach(_, _)
ValidateEach(fmts, titles) ==
    IF fmts = <<>> THEN [err |-> "none", fmts |-> <<>>, ret |-> <<>>]
    ELSE LET first == validate_title(Head(fmts), titles)
         IN  IF first.err # "none"
             THEN [err |-> first.err, fmts |-> fmts, ret |-> <<>>]
             ELSE LET rest == ValidateEach(Tail(fmts), titles)
                  IN  [err |-> rest.err,
                       fmts |-> <<first.obj>> \o rest.fmts,
                       ret |-> IF rest.err # "none" THEN <<>>
                               ELSE <<first.ret>> \o rest.ret]

\* Output_Renderer.validate_formatters(valid_titles) on self.formatters:
\* [err, fmts (the formatters afterwards), ret (the titles found)]
validate_formatters(fmts, titles) == ValidateEach(fmts, titles)

Reverse(s) == [ i \in 1..Len(s) |-> s[Len(s) + 1 - i] ]

RECURSIVE IncludeEach(_, _)
IncludeEach(fmts, titles) ==
    IF titles = <<>> THEN fmts
    ELSE LET title == Head(titles)
             name == split(title, "%")[1]
         IN  IF ~ \E i \in 1..Len(fmts) : eq_str(fmts[i], name)
             THEN IncludeEach(<<Column_Formatter(title).obj>> \o fmts,
                              Tail(titles))
             ELSE IncludeEach(fmts, Tail(titles))

\* add_included walking always_included front to back
add_included_forward(fmts) == IncludeEach(fmts, always_included)

\* Output_Renderer.add_included() on self.formatters: the list afterwards
add_included(fmts) == IncludeEach(fmts, Reverse(always_included))

RECURSIVE Flatten(_)
Flatten(lists) ==
    IF lists = <<>> THEN <<>> ELSE Head(lists) \o Flatten(Tail(lists))

\* correct_columns without the required values appended
correct_columns_norequired(qc) ==
    LET result == [ i \in 1..Len(qc) |->
                      IF qc[i] \in Range(derived_keys) THEN derived(qc[i])
                      ELSE << qc[i] >> ]
    IN  Range(Flatten(result))

\* Output_Renderer.correct_columns() on self.query_columns: the new value
correct_columns(qc) ==
    LET result == [ i \in 1..Len(qc) |->
                      IF qc[i] \in Range(derived_keys) THEN derived(qc[i])
                      ELSE << qc[i] >> ]
    IN  Range(Flatten(result) \o required)

RECURSIVE TitleEach(_)
TitleEach(fmts) ==
    IF fmts = <<>> THEN [err |-> "none", parts |-> <<>>]
    ELSE LET first == format_title(Head(fmts))
         IN  IF first.err # "none" THEN [err |-> first.err, parts |-> <<>>]
             ELSE LET rest == TitleEach(Tail(fmts))
                  IN  IF rest.err # "none" THEN rest
                      ELSE [err |-> "none",
                            parts |-> <<first.ret>> \o rest.parts]

\* Output_Renderer.format_jobs(jobs) on self.formatters: [err, ret]
format_jobs(fmts, jobs) ==
    LET titles == TitleEach(fmts)
    IN  IF titles.err # "none" THEN [err |-> titles.err, ret |-> None]
        ELSE [err |-> "none", ret |-> join(<<" ", " ">>, titles.parts)]

\* Output_Renderer.__init__(valid_titles, format_str):
\* [err, valid_titles (the caller's list afterwards), formatters, query_columns]
Output_Renderer(titles, fstr) ==
    LET built == build_formatters(fstr)
        extended == titles \o derived_keys
        validated == validate_formatters(built.fmts, extended)
    IN  IF built.err # "none"
        THEN [err |-> built.err, valid_titles |-> titles,
              formatters |-> <<>>, query_columns |-> {}]
        ELSE IF validated.err # "none"
        THEN [err |-> validated.err, valid_titles |-> extended,
              formatters |-> <<>>, query_columns |-> {}]
        ELSE [err |-> "none", valid_titles |-> extended,
              formatters |-> add_included(validated.fmts),
              query_columns |-> correct_columns(validated.ret)]
-----------------------------------------------------------------------------
(* Inputs *)

jobid == <<"j","o","b","i","d">>
cpueff == <<"c","p","u","e","f","f">>
Foo == <<"F","o","o">>
PD == <<"P","D">>
RUNNING == <<"R","U","N","N","I","N","G">>
COMPLETED == <<"C","O","M","P","L","E","T","E","D">>
red == <<"r","e","d">>

Vocabularies ==
    { << JobID, JobIDRaw, State, Elapsed >>,
      << State >>,
      << cpueff, jobid, JobID, State >>,
      << >> }

Names == { JobID, jobid, State, CPUEff, Foo }

PlanSuffixes ==
    { <<>>, <<"%">>, <<"%", "<", "4">>, <<"%", "Q", "5">> }

ColumnSuffixes ==
    PlanSuffixes \cup
    { <<"%", ">">>, <<"%", "5">>, <<"%", ">", "1", "0">>, <<"%", "^", "0">>,
      <<"%", "-", "5">>, <<"%", "<", "+", "3">>, <<"%", ">", "x">>,
      <<"%", "5", "%", "3">>, <<"%", " ", "1", "_", "2", " ">>,
      <<"%", "\t", "5", "\n">> }

\* tokens of the enumerated format strings; <<>> is a stray comma
PlanTokens ==
    { <<>>, jobid, State, CPUEff, Foo,
      JobID \o <<"%", "<", "4">>, State \o <<"%", "<", "4">>,
      State \o <<"%", "Q", "5">>, CPUEff \o <<"%">> }

ColumnTokens == { n \o x : n \in Names, x \in ColumnSuffixes }

\* format strings of at most MaxTokens comma-separated tokens
FormatStrings ==
    { join(<<",">>, toks) :
        toks \in UNION { [1..n -> PlanTokens] : n \in 0..MaxTokens } }

Entries == { <<>>, PD, RUNNING, COMPLETED }

EntryLists == UNION { [1..n -> Entries] : n \in 0..MaxEntries }

Colors == { None, red }

JobLists == { <<>>, << [JobID |-> <<"1">>, State |-> COMPLETED] >> }

-----------------------------------------------------------------------------
(* The rendering plan: Output_Renderer built from a vocabulary and a       *)
(* format string, then asked for the table.                                *)

Init ==
    /\ valid_titles \in Vocabularies
    /\ format_str \in FormatStrings
    /\ formatters = <<>>
    /\ query_columns = {}
    /\ builds = 0
    /\ col = <<>>
    /\ pc = "new"
    /\ op = "none"
    /\ arg = <<>>
    /\ ret = None
    /\ err = "none"

\* Output_Renderer(valid_titles, format_str)
Construct ==
    /\ builds < MaxBuilds
    /\ LET r == Output_Renderer(valid_titles, format_str)
       IN  /\ valid_titles' = r.valid_titles
           /\ formatters' = r.formatters
           /\ query_columns' = r.query_columns
           /\ pc' = IF r.err = "none" THEN "built" ELSE "failed"
           /\ err' = r.err
    /\ builds' = builds + 1
    /\ op' = "__init__"
    /\ arg' = <<>>
    /\ ret' = None
    /\ UNCHANGED <<format_str, col>>

\* renderer.format_jobs(jobs)
FormatJobs ==
    /\ pc = "built"
    /\ \E jobs \in JobLists :
         LET r == format_jobs(formatters, jobs)
         IN  /\ op' = "format_jobs"
             /\ arg' = jobs
             /\ ret' = r.ret
             /\ err' = r.err
    /\ UNCHANGED <<valid_titles, format_str, formatters, query_columns,
                   builds, col, pc>>

\* renderer.validate_formatters(titles) on a built plan: renames the
\* formatters in place and returns the titles found; query_columns is not
\* reassigned
ValidateFormatters ==
    /\ pc = "built"
    /\ \E titles \in Vocabularies :
         LET r == validate_formatters(formatters, titles)
         IN  /\ formatters' = r.fmts
             /\ ret' = r.ret
             /\ err' = r.err
             /\ arg' = titles
    /\ op' = "validate_formatters"
    /\ UNCHANGED <<valid_titles, format_str, query_columns, builds, col, pc>>

\* renderer.add_included() on a built plan
AddIncluded ==
    /\ pc = "built"
    /\ Len(add_included(formatters)) <= MaxColumns
    /\ formatters' = add_included(formatters)
    /\ op' = "add_included"
    /\ arg' = <<>>
    /\ ret' = None
    /\ err' = "none"
    /\ UNCHANGED <<valid_titles, format_str, query_columns, builds, col, pc>>

\* a list holding the elements of a set; query_columns is list(set(..)),
\* whose order is arbitrary, and correct_columns returns a set again
RECURSIVE SeqOf(_)
SeqOf(S) ==
    IF S = {} THEN <<>>
    ELSE LET x == CHOOSE y \in S : TRUE IN <<x>> \o SeqOf(S \ {x})

\* renderer.correct_columns() on a built plan
CorrectColumns ==
    /\ pc = "built"
    /\ query_columns' = correct_columns(SeqOf(query_columns))
    /\ op' = "correct_columns"
    /\ arg' = <<>>
    /\ ret' = None
    /\ err' = "none"
    /\ UNCHANGED <<valid_titles, format_str, formatters, builds, col, pc>>

Next ==
    \/ Construct
    \/ FormatJobs
    \/ ValidateFormatters
    \/ AddIncluded
    \/ CorrectColumns

Spec == Init /\ [][Next]_vars

-----------------------------------------------------------------------------
(* One Column_Formatter object through its life.                           *)

InitCol ==
    /\ valid_titles = <<>>
    /\ format_str = <<>>
    /\ formatters = <<>>
    /\ query_columns = {}
    /\ builds = 0
    /\ col = <<>>
    /\ pc = "start"
    /\ op = "none"
    /\ arg = <<>>
    /\ ret = None
    /\ err = "none"

plan == <<valid_titles, format_str, formatters, query_columns, builds>>

\* Column_Formatter(token)
New ==
    /\ pc = "start"
    /\ \E token \in ColumnTokens :
         LET r == Column_Formatter(token)
         IN  /\ col' = IF r.err = "none" THEN << r.obj >> ELSE <<>>
             /\ pc' = IF r.err = "none" THEN "live" ELSE "failed"
             /\ err' = r.err
             /\ arg' = token
    /\ op' = "Column_Formatter"
    /\ ret' = None
    /\ UNCHANGED plan

\* column.validate_title(titles)
ValidateTitle ==
    /\ pc = "live"
    /\ \E titles \in Vocabularies :
         LET r == validate_title(col[1], titles)
         IN  /\ col' = << r.obj >>
             /\ ret' = r.ret
             /\ err' = r.err
             /\ arg' = titles
    /\ op' = "validate_title"
    /\ UNCHANGED <<plan, pc>>

\* column.compute_width(entries)
ComputeWidth ==
    /\ pc = "live"
    /\ \E entries \in EntryLists :
         /\ col' = << compute_width(col[1], entries) >>
         /\ arg' = entries
    /\ op' = "compute_width"
    /\ ret' = None
    /\ err' = "none"
    /\ UNCHANGED <<plan, pc>>

\* column.format_title()
FormatTitle ==
    /\ pc = "live"
    /\ LET r == format_title(col[1])
       IN  /\ ret' = r.ret
           /\ err' = r.err
    /\ op' = "format_title"
    /\ arg' = <<>>
    /\ UNCHANGED <<plan, col, pc>>

\* column.format_entry(entry, color)
FormatEntry ==
    /\ pc = "live"
    /\ \E entry \in Entries, color \in Colors :
         LET r == format_entry(col[1], entry, color)
         IN  /\ ret' = r.ret
             /\ err' = r.err
             /\ arg' = << entry, color >>
    /\ op' = "format_entry"
    /\ UNCHANGED <<plan, col, pc>>

NextCol == New \/ ValidateTitle \/ ComputeWidth \/ FormatTitle \/ FormatEntry

SpecCol == InitCol /\ [][NextCol]_vars
-----------------------------------------------------------------------------
(* Properties of the rendering plan (checked under Spec)                   *)

\* the non-empty comma-separated tokens of the format string
UserTokens == NonEmpty(split(format_str, ","))

\* positions of the user's columns in the display list: the last ones
UserIndexes ==
    { i \in 1..Len(formatters) : i > Len(formatters) - Len(UserTokens) }

UserTitles == { formatters[i].title : i \in UserIndexes }

Expand(name) ==
    IF name \in { CPUEff, MemEff, TimeEff } THEN Range(derived(name))
    ELSE { name }

\* the constructor has just returned a plan
Constructed == pc = "built" /\ op = "__init__"

\* C1: after a successful construction query_columns, as a set, is the
\* union over the canonicalised user column names of the prerequisite list
\* (catalog keys) or the name itself (other names), together with the
\* required set JobID, JobIDRaw, State.
C1_QueryColumns ==
    Constructed =>
        /\ query_columns =
             UNION { Expand(t) : t \in UserTitles }
             \cup { JobID, JobIDRaw, State }
        /\ { JobID, JobIDRaw, State } \subseteq query_columns

C1_Witness ==
    /\ Constructed
    /\ CPUEff \in UserTitles
    /\ cpueff \notin UserTitles
    /\ { TotalCPU, AllocCPUS, Elapsed, JobIDRaw } \subseteq query_columns
    /\ CPUEff \notin query_columns

IncludedJobID == [title |-> JobID, alignment |-> ">", width |-> None]
IncludedState == [title |-> State, alignment |-> "^", width |-> None]

\* C2: the display list is the always-included columns (JobID right
\* aligned, then State centred, widths unset) whose title no user column
\* has, in that order, followed by one column per non-empty token in token
\* order, duplicates kept, each with the alignment and width of its token;
\* the empty format string gives exactly [JobID%>, State].
C2_DisplayList ==
    Constructed =>
        LET n == Len(UserTokens)
            k == Len(formatters) - n
            missing == SelectSeq(<< IncludedJobID, IncludedState >>,
                                 LAMBDA c : c.title \notin UserTitles)
        IN  /\ k >= 0
            /\ SubSeq(formatters, 1, k) = missing
            /\ \A i \in 1..n :
                 LET parsed == Column_Formatter(UserTokens[i]).obj
                 IN  /\ casefold(formatters[k + i].title)
                          = casefold(split(UserTokens[i], "%")[1])
                     /\ formatters[k + i].alignment = parsed.alignment
                     /\ formatters[k + i].width = parsed.width
            /\ format_str = <<>> =>
                 formatters = << IncludedJobID, IncludedState >>

C2_Witness ==
    /\ Constructed
    /\ Len(formatters) = 3
    /\ formatters[1] = IncludedJobID
    /\ formatters[2] = [title |-> State, alignment |-> "<", width |-> Some(4)]
    /\ formatters[3] = IncludedState

\* C5: every column title of the display list of a constructed plan, the
\* injected mandatory columns included, equals under case folding an entry
\* of the vocabulary given at construction or a catalog key.
C5_DisplayNamesInVocabulary ==
    Constructed =>
        \A i \in 1..Len(formatters) :
            \E t \in Range(valid_titles) \cup { CPUEff, MemEff, TimeEff } :
                casefold(t) = casefold(formatters[i].title)

\* C6: format_jobs on a constructed plan resolves unset widths before it
\* formats, so it never fails with the unset-width error.
C6_FormatJobsResolvesWidths ==
    op = "format_jobs" => err # "UnsetWidthError"

\* C10: constructing a plan leaves the caller's vocabulary list unchanged,
\* whether construction succeeds or fails.
C10_VocabularyUnchanged == [][valid_titles' = valid_titles]_vars

-----------------------------------------------------------------------------
(* Properties of a Column_Formatter (checked under SpecCol)                *)

\* C3: a token NAME% parses to a column named NAME, centred, width unset,
\* and raises nothing.
C3_EmptyPercentParses ==
    ( /\ op = "Column_Formatter"
      /\ arg # <<>>
      /\ arg[Len(arg)] = "%"
      /\ \A i \in 1..(Len(arg) - 1) : arg[i] # "%" )
    => /\ err = "none"
       /\ col = << [title |-> SubSeq(arg, 1, Len(arg) - 1),
                    alignment |-> "^", width |-> None] >>

\* C4: validate_title sets the title to the first vocabulary entry equal to
\* it under case folding, in the entry's own casing, and returns that entry;
\* without such an entry it fails with the unknown-title error and leaves
\* title, alignment and width as they were.
C4_ValidateTitle ==
    [][ op' = "validate_title" =>
          LET before == col[1]
              after == col'[1]
              titles == arg'
              hits == { i \in 1..Len(titles) :
                          casefold(titles[i]) = casefold(before.title) }
          IN  IF hits # {}
              THEN /\ err' = "none"
                   /\ \E i \in hits :
                        /\ \A j \in hits : i <= j
                        /\ after.title = titles[i]
                        /\ ret' = titles[i]
              ELSE /\ err' = "UnknownTitleError"
                   /\ after = before ]_vars

C4_Witness ==
    /\ op = "validate_title"
    /\ err = "none"
    /\ arg = << cpueff, jobid, JobID, State >>
    /\ ret = jobid
    /\ col[1].title = jobid

\* the text of a format_entry result without the colour escape codes
Unstyled(text, color) ==
    IF color = None THEN text ELSE SubSeq(text, 6, Len(text) - 4)

\* C7: format_entry on a column of width w >= 0 returns, before styling, a
\* string of length w: the first min(len(entry), w) characters of the entry
\* with spaces after it (Left), before it (Right) or split around it
\* (Center, the odd space after).
C7_FormatEntry ==
    ( op = "format_entry" /\ col[1].width # None /\ col[1].width[1] >= 0 )
    => /\ err = "none"
       /\ LET w == col[1].width[1]
              entry == arg[1]
              text == Unstyled(ret, arg[2])
              m == IF Len(entry) < w THEN Len(entry) ELSE w
          IN  /\ Len(text) = w
              /\ \E l \in 0..w, r \in 0..w :
                   /\ text = Spaces(l) \o SubSeq(entry, 1, m) \o Spaces(r)
                   /\ col[1].alignment = "<" => l = 0
                   /\ col[1].alignment = ">" => r = 0
                   /\ col[1].alignment = "^" => r - l \in {0, 1}

C7_Witness ==
    /\ op = "format_entry"
    /\ col[1].width = Some(4)
    /\ arg = << COMPLETED, None >>
    /\ ret = <<"C","O","M","P">>

\* C8: the width of a column is unset or a non-negative integer and its
\* alignment is one of < ^ >; a token whose text after % and the optional
\* alignment symbol is present and not a non-negative decimal integer is
\* rejected with the format error.
C8_WidthNonNegative ==
    /\ col # <<>> =>
         /\ col[1].width = None \/ col[1].width[1] >= 0
         /\ col[1].alignment \in {"<", "^", ">"}
    /\ ( /\ op = "Column_Formatter"
         /\ Len(split(arg, "%")) > 1
         /\ LET f == split(arg, "%")[2]
                w == IF f # <<>> /\ f[1] \in {"<", "^", ">"} THEN Tail(f)
                     ELSE f
            IN  w # <<>> /\ \E i \in 1..Len(w) : ~IsDigit(w[i]) )
       => err = "FormatError"

\* C9: the width of a column changes at most once: compute_width on a
\* column without a width sets it to the largest length among the title and
\* the entries; a width, once set, is left alone by every operation.
C9_WidthSetOnce ==
    [][ /\ ( col # <<>> /\ col[1].width # None ) =>
              col'[1].width = col[1].width
        /\ ( col # <<>> /\ col[1].width = None ) =>
              IF op' = "compute_width"
              THEN /\ col'[1].width # None
                   /\ \A e \in Range(arg') \cup { col[1].title } :
                        col'[1].width[1] >= Len(e)
                   /\ \E e \in Range(arg') \cup { col[1].title } :
                        col'[1].width[1] = Len(e)
              ELSE col'[1].width = None ]_vars

C9_Witness ==
    /\ op = "compute_width"
    /\ arg = << RUNNING, PD >>
    /\ col[1] = [title |-> State, alignment |-> "^", width |-> Some(7)]

====
